---- MODULE Spec2Model ----
(***************************************************************************)
(* A model of partial.py: the vendoring pipeline                           *)
(*   keepalive -> latest_release_tag -> clone_repo -> copy_files           *)
(*             -> apply_patch -> commit                                    *)
(* Strings the code inspects character by character (tag names, file      *)
(* contents) are sequences of one-character strings.  Paths are sequences  *)
(* of path components (pathlib's .parts).                                  *)
(***************************************************************************)
EXTENDS Integers, Sequences, FiniteSets, TLC

\* ------------------------------------------------------------------ bounds
\* Longest tag list the tags endpoint returns in SpecTags.
MaxTags == 3
\* Longest file content (in characters) copied in SpecText.
MaxFileLen == 4
\* Longest pattern list handed to copy_files in SpecCopy.
MaxPatterns == 2

\* ----------------------------------------------------------- small helpers
\* Python's None.  It is kept a sequence so that it can be compared with the
\* tags and paths it stands in for; no tag or path component is "None".
None == <<"None">>

Last(s) == s[Len(s)]

Range(s) == {s[i] : i \in 1..Len(s)}

IsPrefix(p, q) == Len(p) <= Len(q) /\ SubSeq(q, 1, Len(p)) = p

\* A sequence holding each element of the finite set S once.
RECURSIVE SetToSeq(_)
SetToSeq(S) ==
    IF S = {} THEN <<>>
    ELSE LET x == CHOOSE y \in S : TRUE IN <<x>> \o SetToSeq(S \ {x})

\* The concatenation of a sequence of sequences.
RECURSIVE Flatten(_)
Flatten(ss) == IF ss = <<>> THEN <<>> ELSE Head(ss) \o Flatten(Tail(ss))

\* ===================================================== latest_release_tag
Digits == {"0", "1", "2", "3", "4", "5", "6", "7", "8", "9"}

DigitVal(c) ==
    CASE c = "0" -> 0 [] c = "1" -> 1 [] c = "2" -> 2 [] c = "3" -> 3
      [] c = "4" -> 4 [] c = "5" -> 5 [] c = "6" -> 6 [] c = "7" -> 7
      [] c = "8" -> 8 [] c = "9" -> 9

\* int(run) for a run of digits (Python integers do not overflow).
RECURSIVE ParseInt(_)
ParseInt(run) ==
    IF run = <<>> THEN 0
    ELSE 10 * ParseInt(SubSeq(run, 1, Len(run) - 1)) + DigitVal(Last(run))

\* re.findall(r"\d+", v): the maximal digit runs of v, left to right.
\* cur is the run being read, "" when none is open.
RECURSIVE FindDigitRuns(_, _, _)
FindDigitRuns(v, cur, open) ==
    IF v = <<>> THEN (IF open THEN <<cur>> ELSE <<>>)
    ELSE IF Head(v) \in Digits
         THEN FindDigitRuns(Tail(v), cur \o <<Head(v)>>, TRUE)
         ELSE (IF open THEN <<cur>> ELSE <<>>) \o FindDigitRuns(Tail(v), <<>>, FALSE)

\* The sort key: tuple(map(int, re.findall(r"\d+", v))).
TagKey(v) ==
    LET runs == FindDigitRuns(v, <<>>, FALSE)
    IN  [i \in 1..Len(runs) |-> ParseInt(runs[i])]

\* Python's tuple comparison a < b.
RECURSIVE TupleLess(_, _)
TupleLess(a, b) ==
    IF b = <<>> THEN FALSE
    ELSE IF a = <<>> THEN TRUE
    ELSE IF Head(a) # Head(b) THEN Head(a) < Head(b)
    ELSE TupleLess(Tail(a), Tail(b))

\* Code points, for comparing tag names as plain strings.
CharRank(c) ==
    CASE c = "." -> 46 [] c \in Digits -> 48 + DigitVal(c)
      [] c = "c" -> 99 [] c = "r" -> 114 [] c = "v" -> 118 [] OTHER -> 0

\* tags.sort() without the key: names compared as strings.
RECURSIVE InsertByName(_, _)
InsertByName(sorted, x) ==
    IF sorted = <<>> THEN <<x>>
    ELSE IF TupleLess([i \in 1..Len(x) |-> CharRank(x[i])],
                      [i \in 1..Len(Head(sorted)) |-> CharRank(Head(sorted)[i])])
         THEN <<x>> \o sorted
         ELSE <<Head(sorted)>> \o InsertByName(Tail(sorted), x)

\* One insertion of list.sort(key=...): x goes after every element whose key
\* is not greater (the sort is stable).
RECURSIVE InsertByKey(_, _)
InsertByKey(sorted, x) ==
    IF sorted = <<>> THEN <<x>>
    ELSE IF TupleLess(TagKey(x), TagKey(Head(sorted)))
         THEN <<x>> \o sorted
         ELSE <<Head(sorted)>> \o InsertByKey(Tail(sorted), x)

\* tags.sort(key=lambda v: tuple(map(int, re.findall(r"\d+", v))))
RECURSIVE SortTags(_)
SortTags(tags) ==
    IF tags = <<>> THEN <<>>
    ELSE InsertByKey(SortTags(SubSeq(tags, 1, Len(tags) - 1)), Last(tags))

\* HTTP statuses urlopen raises urllib.error.HTTPError for; status 0 stands
\* for a urllib.error.URLError (no HTTP answer at all).
HttpErrors == {403, 404, 500}
NetDown == 0

\* The except clause of latest_release_tag: which failures of the release
\* request are handled by falling back to the tags request.
ExceptHTTPError(status) == status \in HttpErrors

\* One external command or request as the run log keeps it.
Entry(c, a, r) == [cmd |-> c, arg |-> a, rc |-> r]

\* latest_release_tag(repo), given what the two endpoints answer.
\*   rel:  [status |-> 200, tag_name |-> t] or [status |-> error]
\*   tgs:  [status |-> 200, names |-> <<t1, ...>>] or [status |-> error]
\* Result: err ("none" or the exception raised), tag, and the requests made.
latest_release_tag(rel, tgs) ==
    LET q1 == <<Entry("GET releases/latest", None, rel.status)>>
        q2 == q1 \o <<Entry("GET tags", None, tgs.status)>>
    IN  IF rel.status = 200
        THEN [err |-> "none", tag |-> rel.tag_name, reqs |-> q1]
        ELSE IF ~ExceptHTTPError(rel.status)
        THEN [err |-> "URLError", tag |-> None, reqs |-> q1]
        ELSE IF tgs.status = NetDown
        THEN [err |-> "URLError", tag |-> None, reqs |-> q2]
        ELSE IF tgs.status # 200
        THEN [err |-> "HTTPError", tag |-> None, reqs |-> q2]
        ELSE IF tgs.names = <<>>
        THEN [err |-> "IndexError", tag |-> None, reqs |-> q2]
        ELSE [err |-> "none", tag |-> Last(SortTags(tgs.names)), reqs |-> q2]

\* ============================================================== text copy
CR == "\r"
LF == "\n"

\* str.rstrip() strips these (of the characters the model uses).
Whitespace == {" ", "\t", "\f", CR, LF}

\* open(..., newline=None): "\r\n" and "\r" are read as "\n".
RECURSIVE UniversalNewlines(_)
UniversalNewlines(s) ==
    IF s = <<>> THEN <<>>
    ELSE IF Head(s) = CR
         THEN IF Len(s) >= 2 /\ s[2] = LF
              THEN <<LF>> \o UniversalNewlines(SubSeq(s, 3, Len(s)))
              ELSE <<LF>> \o UniversalNewlines(Tail(s))
         ELSE <<Head(s)>> \o UniversalNewlines(Tail(s))

\* rfile.readlines(): the lines of s, each with its "\n" kept.
RECURSIVE ReadLines(_, _)
ReadLines(s, cur) ==
    IF s = <<>> THEN (IF cur = <<>> THEN <<>> ELSE <<cur>>)
    ELSE IF Head(s) = LF
         THEN <<cur \o <<LF>>>> \o ReadLines(Tail(s), <<>>)
         ELSE ReadLines(Tail(s), cur \o <<Head(s)>>)

RStripNewlineOnly(l) ==
    IF l # <<>> /\ Last(l) = LF THEN SubSeq(l, 1, Len(l) - 1) ELSE l

\* l.rstrip()
RECURSIVE RStrip(_)
RStrip(l) ==
    IF l = <<>> THEN <<>>
    ELSE IF Last(l) \in Whitespace THEN RStrip(SubSeq(l, 1, Len(l) - 1))
    ELSE l

\* The text branch of copy_files with the default modifier (identity):
\* wfile.writelines(modifier(l.rstrip())+"\n" for l in rfile.readlines())
CopyText(data) ==
    LET ls == ReadLines(UniversalNewlines(data), <<>>)
    IN  Flatten([i \in 1..Len(ls) |-> RStrip(ls[i]) \o <<LF>>])

\* What one File Copy Job writes: shutil.copy2 in binary mode.
CopyData(data, binary) == IF binary THEN data ELSE CopyText(data)

\* ============================================================= filesystem
\* A filesystem below the current directory: a function from the existing
\* paths to nodes.  The current directory itself is the empty path (its
\* pathlib .parts is the empty tuple) and always exists.
DirNode == [kind |-> "dir", data |-> <<>>]
FileNode(d) == [kind |-> "file", data |-> d]

Exists(fs, p) == p = <<>> \/ p \in DOMAIN fs
IsDir(fs, p) == p = <<>> \/ (p \in DOMAIN fs /\ fs[p].kind = "dir")
IsFile(fs, p) == p \in DOMAIN fs /\ fs[p].kind = "file"

Restrict(fs, S) == [q \in S |-> fs[q]]

\* shutil.rmtree(p, ignore_errors=True): removes a directory tree; on a
\* missing path or a regular file the error is ignored and nothing changes.
RmTree(fs, p) ==
    IF IsDir(fs, p) THEN Restrict(fs, {q \in DOMAIN fs : ~IsPrefix(p, q)}) ELSE fs

\* Path.unlink()
Unlink(fs, p) == Restrict(fs, DOMAIN fs \ {p})

\* The proper ancestors of p below the current directory.
Parents(p) == {SubSeq(p, 1, n) : n \in 1..(Len(p) - 1)}

\* fdest.parent.mkdir(parents=True, exist_ok=True), then writing fdest.
WriteFile(fs, p, d) ==
    [q \in DOMAIN fs \cup Parents(p) \cup {p} |->
        IF q = p THEN FileNode(d) ELSE IF q \in DOMAIN fs THEN fs[q] ELSE DirNode]

\* mkdir fails when an ancestor is a regular file, open("w") when the path
\* is a directory.
CanWrite(fs, p) == (\A q \in Parents(p) : ~IsFile(fs, q)) /\ ~IsDir(fs, p)

\* The tree t (paths relative to its root) placed at path at.
Graft(fs, at, t) ==
    [q \in DOMAIN fs \cup {at} \cup {at \o r : r \in DOMAIN t} |->
        IF q = at THEN DirNode
        ELSE IF IsPrefix(at, q) /\ SubSeq(q, Len(at) + 1, Len(q)) \in DOMAIN t
             THEN t[SubSeq(q, Len(at) + 1, Len(q))]
             ELSE fs[q]]

\* ------------------------------------------------------------------- glob
\* A pattern is the sequence of the segments between its slashes.  A segment
\* is a literal name, "*", "*.h", "*.y*ml" or the recursive wildcard "**".
HeaderNames == {"a.h", "old.h", "top.h"}
YamlNames == {"ci.yml", "up.yaml"}

\* fnmatch of one segment against one name.
SegMatch(seg, name) ==
    CASE seg = "*" -> TRUE
      [] seg = "*.h" -> name \in HeaderNames
      [] seg = "*.y*ml" -> name \in YamlNames
      [] OTHER -> seg = name

\* Whether pattern pat selects the path base/rel: "**" stands for any number
\* of directories below a directory, none included, so a pattern ending in
\* "**" selects directories only, the globbed directory itself among them.
RECURSIVE GlobMatch(_, _, _, _)
GlobMatch(fs, base, pat, rel) ==
    IF pat = <<>> THEN rel = <<>>
    ELSE IF Head(pat) = "**"
    THEN /\ IsDir(fs, base)
         /\ \/ GlobMatch(fs, base, Tail(pat), rel)
            \/ /\ rel # <<>>
               /\ GlobMatch(fs, base \o <<Head(rel)>>, pat, Tail(rel))
    ELSE /\ rel # <<>>
         /\ SegMatch(Head(pat), Head(rel))
         /\ GlobMatch(fs, base \o <<Head(rel)>>, Tail(pat), Tail(rel))

\* root.glob(pattern): the selected paths, relative to root.
Glob(fs, root, pat) ==
    IF ~IsDir(fs, root) THEN {}
    ELSE LET below == {<<>>} \cup
                      {SubSeq(q, Len(root) + 1, Len(q)) :
                          q \in {x \in DOMAIN fs : IsPrefix(root, x) /\ x # root}}
         IN  {rel \in below : GlobMatch(fs, root, pat, rel)}

\* The list built by "for pattern in patterns: for f in root.glob(pattern)".
GlobAll(fs, root, patterns) ==
    Flatten([i \in 1..Len(patterns) |-> SetToSeq(Glob(fs, root, patterns[i]))])

\* ============================================================= copy_files
\* The pre-clean of copy_files for dest None: every first component of a
\* match below the current directory is removed, a file by unlink, anything
\* else by rmtree.  f.parts[0] raises IndexError for the current directory
\* itself, before anything is removed.
RECURSIVE RemoveTops(_, _)
RemoveTops(fs, tops) ==
    IF tops = {} THEN fs
    ELSE LET t == CHOOSE x \in tops : TRUE
         IN  RemoveTops(IF IsFile(fs, <<t>>) THEN Unlink(fs, <<t>>)
                        ELSE RmTree(fs, <<t>>), tops \ {t})

PreClean(fs, patterns, dest, delete) ==
    IF ~delete THEN [fs |-> fs, err |-> "none"]
    ELSE IF dest = None
    THEN LET found == GlobAll(fs, <<>>, patterns) IN
         IF <<>> \in Range(found)
         THEN [fs |-> fs, err |-> "IndexError"]
         ELSE [fs |-> RemoveTops(fs, {Head(f) : f \in Range(found)}), err |-> "none"]
    ELSE [fs |-> RmTree(fs, dest), err |-> "none"]

\* The copy loop over the matches of the source, in order; it stops at the
\* first job that cannot be written.
RECURSIVE CopyJobs(_, _, _, _, _, _)
CopyJobs(fs, src, to, jobs, binary, files) ==
    IF jobs = <<>> THEN [fs |-> fs, files |-> files, err |-> "none"]
    ELSE LET rel == Head(jobs)
             fsrc == src \o rel
             fdest == to \o rel
         IN  IF ~IsFile(fs, fsrc)
             THEN CopyJobs(fs, src, to, Tail(jobs), binary, files)
             ELSE IF ~CanWrite(fs, fdest)
             THEN [fs |-> fs, files |-> files, err |-> "OSError"]
             ELSE CopyJobs(WriteFile(fs, fdest, CopyData(fs[fsrc].data, binary)),
                           src, to, Tail(jobs), binary, Append(files, fdest))

\* copy_files(src, patterns, dest, delete, modifier=None, binary).
\* Result: the filesystem left behind, the returned list, and the exception
\* raised ("none" when it returns).
copy_files(fs, src, patterns, dest, delete, binary) ==
    LET pre == PreClean(fs, patterns, dest, delete) IN
    IF pre.err # "none" THEN [fs |-> pre.fs, files |-> <<>>, err |-> pre.err]
    ELSE LET to == IF dest = None THEN <<>> ELSE dest
             r == CopyJobs(pre.fs, src, to, GlobAll(pre.fs, src, patterns), binary, <<>>)
         IN  IF r.err # "none" THEN r
             ELSE IF r.files = <<>>
             THEN [fs |-> r.fs, files |-> <<>>, err |-> "AssertionError"]
             ELSE r

\* ============================================================= clone_repo
\* What "git clone --depth=1" of acme/widgets checks out, relative to the
\* clone's root.
UpstreamTree ==
    (<<"src">> :> DirNode)
    @@ (<<"src", "a.h">> :> FileNode(<<"x", " ", CR, LF, "y">>))
    @@ (<<"src", "b.c">> :> FileNode(<<"c", LF>>))
    @@ (<<"top.h">> :> FileNode(<<"t", "\t", LF>>))

clone_repo_always(fs, dest, branch, overwrite, rc) ==
    LET fs1 == RmTree(fs, dest)
        run == IF Exists(fs1, dest) THEN 128 ELSE rc
        log == <<Entry("git clone --depth=1", branch, run)>>
    IN  IF run = 0
        THEN [fs |-> Graft(fs1, dest, UpstreamTree), cmds |-> log, err |-> "none"]
        ELSE [fs |-> fs1, cmds |-> log, err |-> "CalledProcessError"]

\* clone_repo(repo, dest, branch, overwrite); rc is the exit status git
\* clone would return.  git refuses a destination that still exists (rmtree
\* leaves a regular file where it is).
clone_repo(fs, dest, branch, overwrite, rc) ==
    IF ~overwrite /\ Exists(fs, dest)
    THEN [fs |-> fs, cmds |-> <<>>, err |-> "none"]
    ELSE LET fs1 == RmTree(fs, dest)
             run == IF Exists(fs1, dest) THEN 128 ELSE rc
             log == <<Entry("git clone --depth=1", branch, run)>>
         IN  IF run = 0
             THEN [fs |-> Graft(fs1, dest, UpstreamTree), cmds |-> log, err |-> "none"]
             ELSE [fs |-> fs1, cmds |-> log, err |-> "CalledProcessError"]

\* ============================================================ apply_patch
\* What a patch that applies leaves of a file's content.
Patched(d) == d \o <<"p", LF>>

\* apply_patch(file); rc is the exit status of git apply.  The patch of the
\* model rewrites the first copied file; git apply changes nothing when it
\* fails.
apply_patch(fs, files, rc) ==
    LET log == <<Entry("git apply", None, rc)>>
    IN  IF rc # 0
        THEN [fs |-> fs, cmds |-> log, err |-> "CalledProcessError"]
        ELSE [fs |-> [fs EXCEPT ![files[1]] = FileNode(Patched(@.data))],
              cmds |-> log, err |-> "none"]

\* ================================================================= commit
UpdateTo == <<"U", "p", "d", "a", "t", "e", " ", "t", "o", " ">>

TagLabelNoPrefix(tag) == IF tag = None THEN <<"l", "a", "t", "e", "s", "t">> ELSE tag

\* The label of the commit message: "latest" for no tag, a "v" put before a
\* tag that starts with a digit.
TagLabel(tag) ==
    LET t == IF tag = None THEN <<"l", "a", "t", "e", "s", "t">> ELSE tag
    IN  IF Head(t) \in Digits THEN <<"v">> \o t ELSE t

StageArgsEveryFile(files) == [i \in 1..Len(files) |-> Head(files[i])]

\* The arguments of git add: set(f.parts[0] for f in files), joined.
StageArgs(files) == SetToSeq({Head(f) : f \in Range(files)})

\* commit(files, tag); addRc, diffRc and commitRc are the exit statuses of
\* git add, git diff-index --quiet HEAD and git commit.
commit(files, tag, addRc, diffRc, commitRc) ==
    LET add == <<Entry("git add", StageArgs(files), addRc)>>
        diff == <<Entry("git diff-index --quiet HEAD", None, diffRc)>>
        msg == UpdateTo \o TagLabel(tag)
    IN  IF addRc # 0 THEN [cmds |-> add, err |-> "CalledProcessError"]
        ELSE IF diffRc # 0
        THEN [cmds |-> add \o diff \o <<Entry("git commit", msg, commitRc)>>,
              err |-> "none"]
        ELSE [cmds |-> add \o diff, err |-> "none"]

\* ============================================================== keepalive
WorkflowDir == <<".github", "workflows">>

\* keepalive(): with GITHUB_TOKEN set, one "gh api ... enable" per workflow
\* file; rcs gives each call's exit status, which subprocess.run ignores.
keepalive(fs, hasToken, rcs) ==
    IF ~hasToken THEN <<>>
    ELSE LET ws == SetToSeq(Glob(fs, WorkflowDir, <<"*.y*ml">>))
         IN  [i \in 1..Len(ws) |-> Entry("gh api enable", ws[i], rcs[Last(ws[i])])]

\* ================================================================ the run
VARIABLES
    pc,        \* the stage about to run, "done" or "failed"
    args,      \* the command line: patterns, dest, patch, fast, head, binary
    hasToken,  \* GITHUB_TOKEN is in the environment
    fs,        \* the filesystem below the current directory
    fs0,       \* the filesystem the run started with
    tag,       \* copy_repo's tag
    files,     \* copy_repo's files
    cmds,      \* the external commands and requests issued, in order
    ran,       \* the stages entered, in order
    err,       \* the exception that ended the run, "none" otherwise
    fin,       \* the input of the function applied (SpecTags, SpecText, SpecCopy)
    fout,      \* its result
    fpc        \* "in" before it is applied, "out" after

vars == <<pc, args, hasToken, fs, fs0, tag, files, cmds, ran, err, fin, fout, fpc>>

\* src = Path(f"{repo.rsplit('/')[-1]}_src") for the repository acme/widgets.
CloneDir == <<"widgets_src">>

\* A clone left by an earlier run, at another version.
StaleTree ==
    (<<"src">> :> DirNode)
    @@ (<<"src", "a.h">> :> FileNode(<<"o", LF>>))
    @@ (<<"src", "old.h">> :> FileNode(<<"g", LF>>))

\* The consumer repository's working tree before the run.
Workflows ==
    (<<".github">> :> DirNode)
    @@ (WorkflowDir :> DirNode)
    @@ (WorkflowDir \o <<"ci.yml">> :> FileNode(<<"w", LF>>))
    @@ (WorkflowDir \o <<"up.yaml">> :> FileNode(<<"w", LF>>))
    @@ (WorkflowDir \o <<"notes.txt">> :> FileNode(<<"n", LF>>))

Vendored ==
    (<<"src">> :> DirNode)
    @@ (<<"src", "old.h">> :> FileNode(<<"o", LF>>))
    @@ (<<"top.h">> :> FileNode(<<"o", LF>>))
    @@ (<<"ext">> :> DirNode)
    @@ (<<"ext", "widgets">> :> DirNode)
    @@ (<<"ext", "widgets", "old.h">> :> FileNode(<<"o", LF>>))

Unrelated ==
    (<<"keep">> :> DirNode)
    @@ (<<"keep", "k.txt">> :> FileNode(<<"k", LF>>))

EmptyFs == [q \in {} |-> DirNode]

WorkTrees == {Workflows @@ Vendored @@ Unrelated, Workflows @@ Unrelated}

Clones == {EmptyFs, Graft(EmptyFs, CloneDir, StaleTree), Graft(EmptyFs, CloneDir, UpstreamTree)}

PatternLists ==
    { << <<"src", "*.h">> >>,
      << <<"*.h">>, <<"src", "*">> >>,
      << <<"**", "*.h">> >>,
      << <<"src", "**", "*.h">>, <<"src", "a.h">> >>,
      << <<"docs", "*">> >>,
      << <<"**">>, <<"src", "*.h">> >> }

Dests == {None, <<"ext", "widgets">>}

Tag231 == <<"2", ".", "3", ".", "1">>
TagsMixed ==
    << <<"v", "1", ".", "2", ".", "0">>, <<"v", "1", ".", "1", "0", ".", "0">>,
       <<"v", "1", ".", "9", ".", "3">> >>

\* What the hosting provider may answer.
RelResponses ==
    {[status |-> 200, tag_name |-> Tag231]}
    \cup {[status |-> st] : st \in HttpErrors \cup {NetDown}}

TagsResponses ==
    {[status |-> 200, names |-> TagsMixed], [status |-> 200, names |-> <<>>],
     [status |-> 403], [status |-> NetDown]}

\* The function specifications' variables while the pipeline runs, and the
\* pipeline's while a single function is applied.
Idle == fin = <<>> /\ fout = <<>> /\ fpc = "off"

PipelineOff ==
    /\ pc = "off" /\ args = <<>> /\ hasToken = FALSE /\ fs = EmptyFs /\ fs0 = EmptyFs
    /\ tag = None /\ files = <<>> /\ cmds = <<>> /\ ran = <<>> /\ err = "none"

pipelineVars == <<pc, args, hasToken, fs, fs0, tag, files, cmds, ran, err>>

Init ==
    /\ pc = "keepalive"
    /\ args \in [patterns : PatternLists, dest : Dests, patch : BOOLEAN,
                 fast : BOOLEAN, head : BOOLEAN, binary : BOOLEAN]
    /\ hasToken \in BOOLEAN
    /\ fs0 \in {w @@ c : w \in WorkTrees, c \in Clones}
    /\ fs = fs0
    /\ tag = None
    /\ files = <<>>
    /\ cmds = <<>>
    /\ ran = <<>>
    /\ err = "none"
    /\ Idle

\* __main__: keepalive() runs first.
Keepalive ==
    /\ pc = "keepalive"
    /\ \E rcs \in [YamlNames -> {0, 1}] :
          cmds' = cmds \o keepalive(fs, hasToken, rcs)
    /\ ran' = Append(ran, "keepalive")
    /\ pc' = "resolve"
    /\ UNCHANGED <<args, hasToken, fs, fs0, tag, files, err, fin, fout, fpc>>

\* How copy_repo goes on after a call that returned or raised.
After(e, next) == IF e = "none" THEN next ELSE "failed"

\* copy_repo: tag = None if head else latest_release_tag(repo)
Resolve ==
    /\ pc = "resolve"
    /\ ran' = Append(ran, "resolve")
    /\ \/ /\ args.head
          /\ tag' = None
          /\ pc' = "clone"
          /\ UNCHANGED <<cmds, err>>
       \/ /\ ~args.head
          /\ \E rel \in RelResponses, tgs \in TagsResponses :
                LET r == latest_release_tag(rel, tgs) IN
                /\ cmds' = cmds \o r.reqs
                /\ tag' = r.tag
                /\ err' = r.err
                /\ pc' = After(r.err, "clone")
    /\ UNCHANGED <<args, hasToken, fs, fs0, files, fin, fout, fpc>>

\* copy_repo: clone_repo(repo, src, tag, overwrite=not fast)
Clone ==
    /\ pc = "clone"
    /\ ran' = Append(ran, "clone")
    /\ \E rc \in {0, 128} :
          LET r == clone_repo(fs, CloneDir, tag, ~args.fast, rc) IN
          /\ fs' = r.fs
          /\ cmds' = cmds \o r.cmds
          /\ err' = r.err
          /\ pc' = After(r.err, "copy")
    /\ UNCHANGED <<args, hasToken, fs0, tag, files, fin, fout, fpc>>

AfterCopyNoPatch(patch) == "commit"

\* copy_repo: if patch: apply_patch(patch)
AfterCopy(patch) == IF patch THEN "patch" ELSE "commit"

\* copy_repo: files = copy_files(src, patterns, dest, binary=binary)
Copy ==
    /\ pc = "copy"
    /\ ran' = Append(ran, "copy")
    /\ LET r == copy_files(fs, CloneDir, args.patterns, args.dest, TRUE, args.binary) IN
          /\ fs' = r.fs
          /\ files' = r.files
          /\ err' = r.err
          /\ pc' = After(r.err, AfterCopy(args.patch))
    /\ UNCHANGED <<args, hasToken, fs0, tag, cmds, fin, fout, fpc>>

Patch ==
    /\ pc = "patch"
    /\ ran' = Append(ran, "patch")
    /\ \E rc \in {0, 1} :
          LET r == apply_patch(fs, files, rc) IN
          /\ fs' = r.fs
          /\ cmds' = cmds \o r.cmds
          /\ err' = r.err
          /\ pc' = After(r.err, "commit")
    /\ UNCHANGED <<args, hasToken, fs0, tag, files, fin, fout, fpc>>

\* copy_repo: commit(files, tag)
Commit ==
    /\ pc = "commit"
    /\ ran' = Append(ran, "commit")
    /\ \E addRc \in {0, 128}, diffRc \in {0, 1, 128}, commitRc \in {0, 1} :
          LET r == commit(files, tag, addRc, diffRc, commitRc) IN
          /\ cmds' = cmds \o r.cmds
          /\ err' = r.err
          /\ pc' = After(r.err, "done")
    /\ UNCHANGED <<args, hasToken, fs, fs0, tag, files, fin, fout, fpc>>

Next == Keepalive \/ Resolve \/ Clone \/ Copy \/ Patch \/ Commit

Spec == Init /\ [][Next]_vars

\* ------------------------------------------- latest_release_tag on its own
TagNames ==
    { <<"v", "1", ".", "2", ".", "0">>, <<"v", "1", ".", "1", "0", ".", "0">>,
      <<"v", "1", ".", "9", ".", "3">>, <<"1", ".", "0">>, <<"1", ".", "2">>,
      <<"1", ".", "1">>, <<"r", "c">>, <<"v", "1", ".", "1", "0">>,
      <<"v", "0", "1", ".", "2", ".", "0">>, <<"2">> }

InitTags ==
    /\ PipelineOff
    /\ fin \in UNION {[1..n -> TagNames] : n \in 0..MaxTags}
    /\ fout = <<>>
    /\ fpc = "in"

\* latest_release_tag for a repository without a release: the release
\* endpoint answers 404, the tags endpoint the list fin.
ResolveTags ==
    /\ fpc = "in"
    /\ fout' = latest_release_tag([status |-> 404], [status |-> 200, names |-> fin])
    /\ fpc' = "out"
    /\ UNCHANGED <<pipelineVars, fin>>

SpecTags == InitTags /\ [][ResolveTags]_vars

\* ------------------------------------------------ one file copy on its own
TextChars == {"a", " ", "\t", "\f", CR, LF}

InitText ==
    /\ PipelineOff
    /\ fin \in [data : UNION {[1..n -> TextChars] : n \in 0..MaxFileLen},
                binary : BOOLEAN]
    /\ fout = <<>>
    /\ fpc = "in"

\* One File Copy Job of copy_files: the content written for the content read.
CopyFile ==
    /\ fpc = "in"
    /\ fout' = CopyData(fin.data, fin.binary)
    /\ fpc' = "out"
    /\ UNCHANGED <<pipelineVars, fin>>

SpecText == InitText /\ [][CopyFile]_vars

\* ---------------------------------------------------- copy_files on its own
Segments == {"src", "*", "*.h", "**"}

Patterns == UNION {[1..n -> Segments] : n \in 1..2}

CwdParts ==
    { (<<"src">> :> DirNode) @@ (<<"src", "old.h">> :> FileNode(<<"o", LF>>)),
      (<<"top.h">> :> FileNode(<<"o", LF>>)),
      Unrelated }

RECURSIVE Merge(_)
Merge(S) == IF S = {} THEN EmptyFs
            ELSE LET x == CHOOSE y \in S : TRUE IN x @@ Merge(S \ {x})

InitCopy ==
    /\ PipelineOff
    /\ \E parts \in SUBSET CwdParts, c \in {EmptyFs, Graft(EmptyFs, CloneDir, UpstreamTree)} :
          fin \in [fs : {Merge(parts) @@ c},
                   patterns : UNION {[1..n -> Patterns] : n \in 1..MaxPatterns},
                   dest : {None, <<"ext">>},
                   delete : BOOLEAN,
                   binary : {FALSE}]
    /\ fout = <<>>
    /\ fpc = "in"

\* copy_files(src, patterns, dest, delete); pre is what its pre-clean alone
\* leaves behind.
CopyFiles ==
    /\ fpc = "in"
    /\ fout' = [pre |-> PreClean(fin.fs, fin.patterns, fin.dest, fin.delete),
                res |-> copy_files(fin.fs, CloneDir, fin.patterns, fin.dest,
                                   fin.delete, fin.binary)]
    /\ fpc' = "out"
    /\ UNCHANGED <<pipelineVars, fin>>

SpecCopy == InitCopy /\ [][CopyFiles]_vars

\* ================================================================ claims
\* The log entries of one command, and the stage each command belongs to.
Sel(name) == SelectSeq(cmds, LAMBDA e : e.cmd = name)
Has(name) == Sel(name) # <<>>
Failed(name) == \E i \in 1..Len(cmds) : cmds[i].cmd = name /\ cmds[i].rc # 0

StageNo(name) ==
    CASE name = "gh api enable" -> 1
      [] name \in {"GET releases/latest", "GET tags"} -> 2
      [] name = "git clone --depth=1" -> 3
      [] name = "git apply" -> 5
      [] name \in {"git add", "git diff-index --quiet HEAD", "git commit"} -> 6

InClone(q) == IsPrefix(CloneDir, q)
OutsideClone(f) == Restrict(f, {q \in DOMAIN f : ~InClone(q)})

\* C1: latest_release_tag queries the tags endpoint only after a 404 of the
\* release endpoint; any other error of the release endpoint is fatal and
\* the tags endpoint is never queried; a 404 takes the fallback.
C1_FallbackOnlyOnNotFound ==
    Has("GET releases/latest") =>
        LET st == Sel("GET releases/latest")[1].rc IN
        /\ st \notin {200, 404} => pc = "failed" /\ ~Has("GET tags")
        /\ st = 404 => Has("GET tags")

\* C1, what the code does: the fallback is taken after every HTTP error of
\* the release endpoint, and only a failure without an HTTP answer is fatal.
C1_FallbackOnEveryHTTPError ==
    Has("GET releases/latest") =>
        LET st == Sel("GET releases/latest")[1].rc IN
        /\ st \in HttpErrors <=> Has("GET tags")
        /\ st = NetDown => pc = "failed" /\ err = "URLError"

\* C2: on the fallback path the tag returned for a non-empty tag list is a
\* tag of the list whose tuple of integers (its digit runs read as numbers)
\* no other tag's tuple exceeds in lexicographic order.
C2_GreatestNumericTag ==
    (fpc = "out" /\ fin # <<>>) =>
        /\ fout.err = "none"
        /\ fout.tag \in Range(fin)
        /\ \A t \in Range(fin) : ~TupleLess(TagKey(fout.tag), TagKey(t))

\* C2 witness: from v1.2.0, v1.10.0, v1.9.3 the resolver picks v1.10.0,
\* which string order would place before v1.9.3.
C2_Witness ==
    /\ fpc = "out"
    /\ fin = TagsMixed
    /\ fout.tag = <<"v", "1", ".", "1", "0", ".", "0">>

\* C3: copy_files, apply_patch and commit never delete the Local Clone or a
\* file inside it.
C3_CloneSurvivesCopy ==
    [][(pc \in {"copy", "patch", "commit"}) =>
          (\A q \in DOMAIN fs : InClone(q) => q \in DOMAIN fs')]_vars

\* C4: with delete requested and no destination root, the pre-clean removes
\* exactly the top-level components of the current directory that contain a
\* match of some pattern, and leaves every other top-level path unchanged.
C4_PreCleanRemovesMatchedTops ==
    (fpc = "out" /\ fin.delete /\ fin.dest = None) =>
        LET matched ==
                {t \in {Head(q) : q \in DOMAIN fin.fs} :
                    \E i \in 1..Len(fin.patterns) :
                        \E rel \in Glob(fin.fs, <<>>, fin.patterns[i]) :
                            rel # <<>> /\ Head(rel) = t}
        IN  fout.pre.fs = Restrict(fin.fs, {q \in DOMAIN fin.fs : Head(q) \notin matched})

\* C4, the part the code keeps: the same, for pattern lists none of which
\* selects the current directory itself.
C4_PreCleanUnlessCwdMatched ==
    (fpc = "out" /\ fin.delete /\ fin.dest = None /\ fout.pre.err = "none") =>
        LET matched ==
                {t \in {Head(q) : q \in DOMAIN fin.fs} :
                    \E i \in 1..Len(fin.patterns) :
                        \E rel \in Glob(fin.fs, <<>>, fin.patterns[i]) : Head(rel) = t}
        IN  fout.pre.fs = Restrict(fin.fs, {q \in DOMAIN fin.fs : Head(q) \notin matched})

\* C5: the stages run in the order keepalive, resolve, clone, copy, patch
\* (when a patch is given), commit, keepalive once and first; after a fatal
\* failure no later stage runs; a failed clone leaves every path outside the
\* clone as it was; after a failed patch nothing is staged or committed and
\* every copied file is in place with the content the copy wrote.
C5_StageOrder ==
    LET order == <<"keepalive", "resolve", "clone", "copy">>
                 \o (IF args.patch THEN <<"patch">> ELSE <<>>) \o <<"commit">>
    IN  /\ IsPrefix(ran, order)
        /\ \A i, j \in 1..Len(cmds) :
              i < j => StageNo(cmds[i].cmd) <= StageNo(cmds[j].cmd)
        /\ pc = "failed" => err # "none" /\ ran # <<>> /\ Last(ran) # "keepalive"
        /\ pc \in {"resolve", "clone", "copy", "patch", "commit"} =>
              Len(ran) < Len(order) /\ order[Len(ran) + 1] = pc
        /\ pc = "done" => ran = order
        /\ Failed("git clone --depth=1") =>
              /\ pc = "failed" /\ Last(ran) = "clone"
              /\ OutsideClone(fs) = OutsideClone(fs0)
              /\ files = <<>>
        /\ Failed("git apply") =>
              /\ pc = "failed" /\ Last(ran) = "patch"
              /\ ~Has("git add") /\ ~Has("git commit")
              /\ files # <<>>
              /\ \A i \in 1..Len(files) :
                    LET to == IF args.dest = None THEN <<>> ELSE args.dest
                        rel == SubSeq(files[i], Len(to) + 1, Len(files[i]))
                    IN  /\ IsFile(fs, files[i])
                        /\ fs[files[i]].data = CopyData(fs[CloneDir \o rel].data, args.binary)

\* C5 witness: a run with a patch whose application failed after the copy.
C5_Witness ==
    /\ Failed("git apply")
    /\ ran = <<"keepalive", "resolve", "clone", "copy", "patch">>
    /\ Has("gh api enable")
    /\ IsFile(fs, <<"src", "a.h">>)

\* C6: commit stages exactly the distinct first components of the written
\* paths, each once, and a commit is created if and only if the tree-diff
\* check after staging reports a difference.
C6_CommitIffDifference ==
    Has("git add") =>
        LET staged == Sel("git add")[1].arg IN
        /\ Range(staged) = {Head(f) : f \in Range(files)}
        /\ Len(staged) = Cardinality(Range(staged))
        /\ pc = "done" =>
              ((\E i \in 1..Len(cmds) : cmds[i].cmd = "git commit" /\ cmds[i].rc = 0)
                  <=> Sel("git diff-index --quiet HEAD")[1].rc = 1)

\* C6 as amended: commit stages exactly the distinct first components of the
\* written paths, each once; the commit command is issued if and only if the
\* tree-diff check ran and exited non-zero, so never when the tree equals
\* HEAD, and at most once; a commit is created only by that command.
C6_CommitIssuedIffDiffNonZero ==
    Has("git add") =>
        LET staged == Sel("git add")[1].arg IN
        /\ Range(staged) = {Head(f) : f \in Range(files)}
        /\ Len(staged) = Cardinality(Range(staged))
        /\ Len(Sel("git add")) = 1
        /\ Has("git diff-index --quiet HEAD") <=> ~Failed("git add")
        /\ Has("git commit") <=> Failed("git diff-index --quiet HEAD")
        /\ Len(Sel("git commit")) <= 1
        /\ pc = "done" <=> ~Failed("git add")

\* C6 witness: two files written below one directory, staged as that one
\* directory, the tree-diff check reporting a difference and the commit
\* command failing.
C6_Witness ==
    /\ pc = "done"
    /\ Len(files) >= 2
    /\ Has("git add") /\ Sel("git add")[1].arg = <<"ext">>
    /\ Sel("git diff-index --quiet HEAD")[1].rc = 1
    /\ Failed("git commit")

\* C7: the message of every commit command is "Update to " and the label:
\* "latest" in head mode, "v" and the tag when the tag starts with a digit,
\* the tag itself otherwise; outside head mode that tag is the resolved one,
\* which is also the branch every clone command was given.
C7_CommitMessage ==
    /\ \A i \in 1..Len(cmds) :
          cmds[i].cmd = "git commit" =>
              cmds[i].arg = UpdateTo \o
                  (IF args.head THEN <<"l", "a", "t", "e", "s", "t">>
                   ELSE IF tag[1] \in Digits THEN <<"v">> \o tag
                   ELSE tag)
    /\ \A i \in 1..Len(cmds) :
          cmds[i].cmd = "git clone --depth=1" =>
              cmds[i].arg = (IF args.head THEN None ELSE tag)
    /\ (~args.head /\ pc \notin {"keepalive", "resolve", "failed"}) => tag # None

\* C7 witness: release tag 2.3.1, a clone at 2.3.1 and the commit message
\* "Update to v2.3.1".
C7_Witness ==
    /\ Has("git clone --depth=1") /\ Sel("git clone --depth=1")[1].arg = Tag231
    /\ Has("git commit")
    /\ Sel("git commit")[1].arg = UpdateTo \o <<"v", "2", ".", "3", ".", "1">>

\* C8: a resolution error other than "not found", a clone failure, an empty
\* copy result and a patch failure each end the run with a failure and an
\* error; a failing commit command and a failing workflow-enable call never
\* do.
C8_FatalAndSwallowed ==
    /\ (Has("GET releases/latest") /\ Sel("GET releases/latest")[1].rc \notin {200, 404})
          => pc = "failed"
    /\ Failed("git clone --depth=1") => pc = "failed"
    /\ ("copy" \in Range(ran) /\ files = <<>>) => pc = "failed"
    /\ Failed("git apply") => pc = "failed"
    /\ pc = "failed" => err # "none"
    /\ Failed("git commit") => pc = "done" /\ err = "none"
    /\ pc = "failed" => Last(ran) # "keepalive"

\* C8, the part the code keeps: the same without the resolution error.
C8_FatalAndSwallowedButResolution ==
    /\ (Has("GET releases/latest") /\ Sel("GET releases/latest")[1].rc = NetDown)
          => pc = "failed"
    /\ Failed("git clone --depth=1") => pc = "failed"
    /\ ("copy" \in Range(ran) /\ files = <<>>) => pc = "failed"
    /\ Failed("git apply") => pc = "failed"
    /\ pc = "failed" => err # "none"
    /\ Failed("git commit") => pc = "done" /\ err = "none"
    /\ pc = "failed" => Last(ran) # "keepalive"

\* C9: clone_repo with overwrite false (fast) and an existing destination
\* removes nothing and clones nothing; otherwise the destination is removed
\* first and one depth-1 clone of the requested tag, or of the default
\* branch, is run, whose non-zero exit is fatal.
C9_CloneRepo ==
    [][(pc = "clone") =>
         (IF args.fast /\ Exists(fs, CloneDir)
          THEN fs' = fs /\ cmds' = cmds /\ pc' = "copy"
          ELSE /\ Len(cmds') = Len(cmds) + 1
               /\ SubSeq(cmds', 1, Len(cmds)) = cmds
               /\ Last(cmds').cmd = "git clone --depth=1"
               /\ Last(cmds').arg = (IF args.head THEN None ELSE tag)
               /\ OutsideClone(fs') = OutsideClone(fs)
               /\ IF Last(cmds').rc = 0
                  THEN pc' = "copy" /\ fs' = Graft(OutsideClone(fs), CloneDir, UpstreamTree)
                  ELSE pc' = "failed" /\ err' # "none" /\ fs' = OutsideClone(fs))]_vars

\* C9 witness: a fast run over a stale clone: no clone command, the stale
\* clone still there although a release tag was resolved.
C9_Witness ==
    /\ pc = "copy"
    /\ args.fast /\ tag = Tag231
    /\ ~Has("git clone --depth=1")
    /\ IsFile(fs, CloneDir \o <<"src", "old.h">>)

\* The line breaks of a file as universal newlines count them, and the
\* lines: one more when the last line is not terminated.
InputLines(d) ==
    Cardinality({k \in 1..Len(d) :
        \/ d[k] = LF
        \/ d[k] = CR /\ ~(k < Len(d) /\ d[k + 1] = LF)})
    + (IF d # <<>> /\ Last(d) \notin {CR, LF} THEN 1 ELSE 0)

\* C10: a text-mode copy writes lines that end in one newline each and have
\* no trailing whitespace, as many as the input has.
C10_TextCopy ==
    (fpc = "out" /\ ~fin.binary) =>
        /\ fout # <<>> => Last(fout) = LF
        /\ \A k \in 1..Len(fout) : fout[k] # CR
        /\ \A k \in 2..Len(fout) : fout[k] = LF => fout[k - 1] \notin {" ", "\t", "\f"}
        /\ Cardinality({k \in 1..Len(fout) : fout[k] = LF}) = InputLines(fin.data)

\* C10 witness: CRLF, a lone CR and an unterminated last line with trailing
\* blanks in one file.
C10_Witness ==
    /\ fpc = "out" /\ ~fin.binary
    /\ fin.data = <<CR, LF, CR, " ">>
    /\ fout = <<LF, LF, LF>>

====
